---- MODULE Spec2Model ----
(***************************************************************************)
(* The single-instance coordinator of the KiCad import plugin:             *)
(* src/plugins/single_instance_manager.py (class SingleInstanceManager)    *)
(* and the start-up / shutdown code of src/plugins/impart_action.py that   *)
(* drives it.                                                              *)
(*                                                                         *)
(* The specifications share the actions:                                   *)
(*   Spec       every process runs the program's __main__ block;           *)
(*   SpecApi    a test bench calls start_server and stop_server of the     *)
(*              primary's manager in any order, peers compete for the      *)
(*              port, and foreign clients connect and go away;             *)
(*   FairApi    SpecApi with the scheduling of the threads;                *)
(*   SpecReg    a test bench calls register_frontend, unregister_frontend, *)
(*              start_server and stop_server of one manager in any order,  *)
(*              while foreign clients connect and go away;                 *)
(*   SpecServe  a peer owns the coordinator, the primary probes it with    *)
(*              is_already_running, foreign clients send arbitrary         *)
(*              payloads, and the owner's UI loop runs the scheduled       *)
(*              calls;                                                     *)
(*   FairServe  SpecServe with the scheduling of threads and event loop;   *)
(*   SpecPoll   the primary runs the program alone, configured: its UI     *)
(*              thread and its import threads print to the status buffer   *)
(*              while the PluginThread polls it and the dialog displays    *)
(*              the events;                                                *)
(*   FairPoll   SpecPoll without import threads, configured or not, with   *)
(*              the scheduling of the PluginThread;                        *)
(*   SpecRelay  the primary runs the program, configured, with its status  *)
(*              relay while the other processes probe it: both their focus *)
(*              commands and the status events reach the primary's UI      *)
(*              loop.                                                      *)
(*                                                                         *)
(* Binding follows Linux: with SO_REUSEADDR a bind fails exactly when a    *)
(* listening socket exists on the address.  A close() of a socket on which *)
(* a thread is inside accept() closes the object at once, but the kernel   *)
(* keeps the listening socket (it holds the port and completes             *)
(* connections) until that accept() returns.  An accept() under a timeout  *)
(* then returns with socket.timeout or EBADF; an accept() without timeout  *)
(* returns only with the next connection.                                  *)
(*                                                                         *)
(* The accept loop reads self.socket twice per iteration, for settimeout   *)
(* (line 81) and for accept (line 82), unsynchronised with start_server:   *)
(* the two reads are separate steps, and the socket of the second read may *)
(* be one whose timeout was never set.  While a thread is inside one of    *)
(* the two calls it holds the socket object: a start_server that replaces  *)
(* self.socket meanwhile does not close it.                                *)
(*                                                                         *)
(* Timing is abstracted to the order of the timeouts in the source:        *)
(* accept 1 s < join 2 s < client recv 5 s.  A join gives up on a thread   *)
(* that handles a client connection (its 5 s receive, the decoding and the *)
(* dispatch, which runs foreign code) or sits in an accept() without       *)
(* timeout.  Sockets are released as CPython releases them: an object is   *)
(* closed when its last reference goes away, and a connection closed with  *)
(* unread data is reset.                                                   *)
(***************************************************************************)
EXTENDS Integers, Sequences, FiniteSets, TLC

\* ---------------------------------------------------------------- bounds
NProcs == 2        \* processes (one SingleInstanceManager each)
MaxStarts == 2     \* start_server calls per manager
MaxConns == 2      \* client connections opened in one run
NHandles == 2      \* distinct frontend objects a test bench registers
NWorkers == 1      \* import threads of a process that print concurrently
MaxPrints == 1     \* print_to_buffer lines per printing thread
MaxVersionLines == 1  \* lines check_min_version prints at start-up

\* ------------------------------------------------------ program constants
DefaultPort == 59999   \* SingleInstanceManager.__init__(port=59999)
ListenBacklog == 1     \* self.socket.listen(1)

Procs == 1..NProcs
ConnIds == 1..MaxConns
Handles == 1..NHandles
NoHandle == 0          \* None
\* The frontend is typed Any: some of the objects a caller registers have
\* the truth value False (__bool__ or __len__; a wx window whose C++ part is
\* gone).  Here these are the handles with an even number; the dialog the
\* program registers is a live window.
FalsyHandles == {h \in Handles : h % 2 = 0}

\* bool(self.frontend_instance)
Truth(h) == h # NoHandle /\ h \notin FalsyHandles
NoSock == 0            \* None
NoConn == 0
EnvClient == 0         \* a client that is not one of the modelled processes

\* The threads that print to the status buffer: the UI thread and the
\* import threads it starts.
UiThread == 0
Workers == 1..NWorkers
Writers == {UiThread} \cup Workers

\* The texts printed: the empty line and two different lines of one character.
Texts == {<<>>, <<"x">>, <<"y">>}

\* wx is importable wherever the program runs: impart_action.py re-raises
\* when "import wx" fails, so the manager's "if wx:" is taken.
WxAvailable == TRUE

\* Payload classes a peer can put on the wire.
PFocus == "focus"        \* {"command": "focus"}
POther == "other"        \* {"command": "quit"}: a JSON object, other command
PNoCmd == "nocmd"        \* {}: a JSON object without "command"
PNotJson == "notjson"    \* not-json: valid UTF-8, not JSON
PNonDict == "nondict"    \* 123 or [1]: valid JSON, not an object
PBadUtf8 == "badutf8"    \* b"\xff": not valid UTF-8
PNone == ""              \* nothing sent
Payloads == {PFocus, POther, PNoCmd, PNotJson, PNonDict, PBadUtf8}

Methods == {"IsShown", "Show", "IsIconized", "Iconize", "Raise", "SetFocus",
            "RequestUserAttention"}

VARIABLES
  mode,      \* "main": processes run __main__; "api": methods called freely
  pc,        \* [Procs -> position of the process's main (UI) thread]
  running,   \* [Procs -> self.running]
  msock,     \* [Procs -> self.socket: index into socks[p], NoSock = None]
  sthread,   \* [Procs -> self.server_thread: index into threads[p], 0 = None]
  frontend,  \* [Procs -> self.frontend_instance: a handle, NoHandle = None]
  socks,     \* [Procs -> Seq of the socket objects start_server created]
  threads,   \* [Procs -> Seq of the accept-loop threads start_server started]
  conns,     \* [ConnIds -> a TCP connection to the port]
  uiq,       \* [Procs -> Seq of calls wx.CallAfter queued for the UI thread]
  win,       \* [Procs -> state of the process's window: shown, iconized]
  window,    \* [Procs -> "none" | "created" | "open" | "destroyed"]
  poller,    \* [Procs -> "none" | "running" | "stopping"]: the PluginThread
             \*   not started | started, stop_thread False | stop_thread True
  print_buffer, \* [Procs -> backend_handler.print_buffer, a sequence of characters]
  writer,    \* [Procs -> [Writers -> a thread's position in print_to_buffer]]
  pthread,   \* [Procs -> PluginThread.run: position, len_str, current_len]
  evq,       \* [Procs -> Seq of the ResultEvent data posted and not yet handled]
  m_text,    \* [Procs -> content of the dialog's text control]
  polled,    \* the poll cycle or update_display of the last step, if one ended
  probe,     \* [Procs -> the call the main thread is in: the connection of
             \*   is_already_running, the argument of start_server]
  ret,       \* the method call that returned in the last step, if one did
  served,    \* what the accept loop did with a connection in the last step
  lastBtf    \* the _bring_to_foreground run of the last step, if there was one

vars == <<mode, pc, running, msock, sthread, frontend, socks, threads, conns,
          uiq, win, window, poller, print_buffer, writer, pthread, evq, m_text,
          polled, probe, ret, served, lastBtf>>

mgrVars == <<running, msock, sthread, frontend>>
osVars == <<socks, conns>>
pollVars == <<print_buffer, writer, pthread, evq, m_text, polled>>
appVars == <<window, poller, pollVars>>

\* ------------------------------------------------------------ the OS side
FreeConn == [used |-> FALSE, cli |-> EnvClient, srv |-> 0, ls |-> NoSock,
             acc |-> "pending", data |-> PNone, cliClosed |-> FALSE,
             resp |-> "", srvClosed |-> FALSE, rst |-> FALSE]

\* A connection both ends have let go of.
DeadConn == [FreeConn EXCEPT !.used = TRUE, !.acc = "gone",
                             !.cliClosed = TRUE, !.srvClosed = TRUE]

Settle(cn) == IF cn.used /\ cn.cliClosed /\ cn.srvClosed THEN DeadConn ELSE cn

SettleAll(cs) == [c \in ConnIds |-> Settle(cs[c])]

\* A socket object: "unbound" after socket(), "listening" after bind and
\* listen, "closed" once the kernel has let go of it.  "closing" is a
\* listening socket whose object was closed (fileno -1) while a thread is
\* inside accept() on it: the kernel keeps the listening socket, and with it
\* the port and the backlog, until that call returns.  tmo: settimeout(1.0)
\* has been called on the object (a new socket blocks without limit).
NewSock == [st |-> "unbound", q |-> <<>>, tmo |-> FALSE]

ClosedSock == [st |-> "closed", q |-> <<>>, tmo |-> FALSE]

HoldsPort(sk) == sk.st \in {"listening", "closing"}

port == [p \in Procs |-> DefaultPort]

\* The listening sockets on a port: <<process, index>>.
ListenersIn(ss, prt) ==
  {pk \in Procs \X (1..MaxStarts) :
     /\ port[pk[1]] = prt
     /\ pk[2] <= Len(ss[pk[1]])
     /\ HoldsPort(ss[pk[1]][pk[2]])}

Listeners(prt) == ListenersIn(socks, prt)

PortHeld(prt) == Listeners(prt) # {}

\* close() of a listening socket: the connections still waiting in its
\* backlog are reset by the kernel; the server never held an end of them.
ResetQueued(cs, q) ==
  [c \in ConnIds |->
     IF \E i \in 1..Len(q) : q[i] = c
     THEN [cs[c] EXCEPT !.rst = TRUE, !.acc = "dropped", !.srvClosed = TRUE]
     ELSE cs[c]]

\* True when a thread of p is inside accept() on socket k: the call holds a
\* reference to the object.
InAccept(p, k) ==
  \E t \in 1..Len(threads[p]) :
     threads[p][t].st = "accept" /\ threads[p][t].ls = k

\* A thread of p is inside a method of socket object k (settimeout or
\* accept): the call holds a reference to the object.
HoldsSock(p, k) ==
  \E t \in 1..Len(threads[p]) :
     threads[p][t].st \in {"settimeout", "accept"} /\ threads[p][t].ls = k

FreeConnIds == {c \in ConnIds : ~conns[c].used}

\* The socket table and the connections after socket k of p is closed
\* (explicitly, or because its last reference went away).  Under a thread
\* that is inside accept() on it, a listening socket stays in the kernel.
SocksAfterClose(ss, p, k) ==
  IF k = NoSock THEN ss
  ELSE IF HoldsPort(ss[p][k]) /\ InAccept(p, k)
  THEN [ss EXCEPT ![p][k].st = "closing"]
  ELSE [ss EXCEPT ![p][k] = ClosedSock]

ConnsAfterClose(cs, ss, p, k) ==
  IF k = NoSock THEN cs
  ELSE IF HoldsPort(ss[p][k]) /\ InAccept(p, k) THEN cs
  ELSE ResetQueued(cs, ss[p][k].q)

\* The last reference to a connection's server-side socket goes away (the
\* loop's local client_socket is rebound, or the thread function returns)
\* and CPython closes it.  read: the loop's recv has taken what the peer
\* sent; when data is still unread at the close the kernel resets the
\* connection instead of ending it.
DropClient(cs, c, read) ==
  IF c = NoConn THEN cs
  ELSE [cs EXCEPT ![c].srvClosed = TRUE,
                  ![c].rst = @ \/ (~read /\ cs[c].data # PNone)]

\* ------------------------------------------------------ event bookkeeping
\* ret, served and lastBtf describe the step just taken and are blank after
\* every other step.
NoRet == [p |-> 0, op |-> "", val |-> "none", why |-> "", sent |-> FALSE,
          pre |-> NoHandle, arg |-> NoHandle, exc |-> FALSE]
RetOf(p, op, val) == [NoRet EXCEPT !.p = p, !.op = op, !.val = val,
                                   !.pre = frontend[p]]

NoServed == [p |-> 0, data |-> PNone, what |-> "", ack |-> "", sched |-> FALSE]
ServedOf(p, data, what, ack) ==
  [p |-> p, data |-> data, what |-> what, ack |-> ack, sched |-> FALSE]
Scheduling(sv, s) == [sv EXCEPT !.sched = s]

\* Event record of the status relay: a poll cycle that ended (watermark
\* before, size read, events posted, content posted) or an update_display
\* (content shown, thread that ran the handler).
NoPolled == [p |-> 0, k |-> "", old |-> 0, cur |-> 0, posted |-> 0,
             data |-> <<>>, thread |-> ""]

\* A thread outside print_to_buffer that has printed n lines.
IdleWriter(n) == [pc |-> "idle", tmp |-> <<>>, text |-> <<>>, n |-> n]

\* PluginThread.run starts with len_str = 0.
NewPluginThread == [pc |-> "test", len_str |-> 0, current_len |-> 0]

NoBtf == [p |-> 0, h |-> NoHandle, hidden |-> FALSE, iconized |-> FALSE,
          offers |-> {}, thread |-> "", calls |-> <<>>,
          raised |-> "", fe |-> NoHandle, exc |-> FALSE]

Returns(r) == ret' = r /\ served' = NoServed /\ lastBtf' = NoBtf
Serves(sv) == ret' = NoRet /\ served' = sv /\ lastBtf' = NoBtf
Quiet == ret' = NoRet /\ served' = NoServed /\ lastBtf' = NoBtf

NoProbe == [conn |-> NoConn, sent |-> FALSE, arg |-> NoHandle]

\* A start-up that builds the UI whatever the probe said.
AfterProbeIgnoringResult(res) ==
  IF mode = "api" THEN "idle" ELSE "create"

\* Where the main thread goes when is_already_running returns: a test bench
\* is free again; __main__ exits on True and goes on to build the UI on False
\* (impart_action.py lines 799-809).
AfterProbe(res) ==
  IF mode = "api" THEN "idle" ELSE IF res = "true" THEN "sleep" ELSE "create"

\* ------------------------------------------------------ is_already_running
\* The except clause of is_already_running: every OSError becomes False.
ProbeFails(p, why) ==
  /\ Returns([RetOf(p, "is_already_running", "false") EXCEPT !.why = why])
  /\ probe' = [probe EXCEPT ![p] = NoProbe]
  /\ pc' = [pc EXCEPT ![p] = AfterProbe("false")]

\* socket(), settimeout(2.0), connect(("127.0.0.1", port)).
ProbeConnect(p) ==
  /\ IF mode = "main" THEN pc[p] = "start" ELSE pc[p] = "idle"
  /\ LET L == Listeners(port[p]) IN
     IF L = {}
     THEN \* ConnectionRefusedError
          /\ ProbeFails(p, "refused")
          /\ UNCHANGED <<socks, conns>>
     ELSE \E lk \in L :
          IF Len(socks[lk[1]][lk[2]].q) > ListenBacklog
          THEN \* accept queue full: the SYN is dropped, connect times out
               /\ ProbeFails(p, "timeout")
               /\ UNCHANGED <<socks, conns>>
          ELSE /\ FreeConnIds # {}
               /\ LET c == CHOOSE x \in FreeConnIds : \A y \in FreeConnIds : x <= y IN
                  /\ conns' = [conns EXCEPT ![c] =
                                 [FreeConn EXCEPT !.used = TRUE, !.cli = p,
                                                  !.srv = lk[1], !.ls = lk[2]]]
                  /\ socks' = [socks EXCEPT ![lk[1]][lk[2]].q = Append(@, c)]
                  /\ probe' = [probe EXCEPT ![p] = [NoProbe EXCEPT !.conn = c]]
               /\ pc' = [pc EXCEPT ![p] = "probe_send"]
               /\ Quiet
  /\ UNCHANGED <<mode, mgrVars, threads, uiq, win, appVars>>

\* client_socket.send(json.dumps({"command": "focus"}).encode("utf-8")).
ProbeSend(p) ==
  /\ pc[p] = "probe_send"
  /\ LET c == probe[p].conn IN
     IF conns[c].rst
     THEN \* OSError (reset by peer); the socket object is dropped
          /\ ProbeFails(p, "senderr")
          /\ conns' = SettleAll([conns EXCEPT ![c].cliClosed = TRUE])
     ELSE /\ conns' = [conns EXCEPT ![c].data = PFocus]
          /\ probe' = [probe EXCEPT ![p].sent = TRUE]
          /\ pc' = [pc EXCEPT ![p] = "probe_recv"]
          /\ Quiet
  /\ UNCHANGED <<mode, mgrVars, socks, threads, uiq, win, appVars>>

\* settimeout(1.0); recv(64) inside "except socket.timeout: pass"; close();
\* return True.  A reset raises ConnectionResetError, which only the outer
\* except catches: return False.
ProbeRecvOutcome(cn) ==
  IF cn.resp # "" THEN {"ack"}
  ELSE IF cn.rst THEN {"reset"}
  ELSE IF cn.srvClosed THEN {"eof"}
  ELSE {"noack"}

\* A probe that takes a missing acknowledgment for a failure.
ProbeResultNeedingAck(why) == IF why \in {"reset", "noack"} THEN "false" ELSE "true"

ProbeResult(why) == IF why = "reset" THEN "false" ELSE "true"

ProbeRecv(p) ==
  /\ pc[p] = "probe_recv"
  /\ LET c == probe[p].conn IN
     \E why \in ProbeRecvOutcome(conns[c]) :
       /\ Returns([RetOf(p, "is_already_running", ProbeResult(why))
                   EXCEPT !.why = why, !.sent = probe[p].sent])
       /\ probe' = [probe EXCEPT ![p] = NoProbe]
       /\ conns' = SettleAll([conns EXCEPT ![c].cliClosed = TRUE])
       /\ pc' = [pc EXCEPT ![p] = AfterProbe(ProbeResult(why))]
  /\ UNCHANGED <<mode, mgrVars, socks, threads, uiq, win, appVars>>

\* ------------------------------------------------------------ start_server
\* bind(("127.0.0.1", port)) with SO_REUSEADDR, then listen(1): fails with
\* EADDRINUSE exactly when a listening socket exists on the address.
BindSucceeds(ss, prt) == ListenersIn(ss, prt) = {}

\* self.running = True is reached only when bind and listen did not raise.
StartRunning(bound, was) == IF bound THEN TRUE ELSE was

\* A start_server that reports success whatever bind did.
StartReturnAlwaysTrue(bound) == "true"

\* return True after the thread is started, False from the except branch.
StartReturn(bound) == IF bound THEN "true" ELSE "false"

\* Process 1 is the manager a run exercises in full; the others are its
\* peers, which start their coordinator at most once.
Primary == CHOOSE p \in Procs : \A q \in Procs : p <= q
Peers == Procs \ {Primary}
StartLimit(p) == IF p = Primary THEN MaxStarts ELSE 1

NewThread == [st |-> "top", ls |-> NoSock, conn |-> NoConn, ack |-> "",
              sched |-> FALSE, tmo |-> TRUE]

\* Whether bind and listen of the start_server call p is in succeed now.
StartBinds(p) == BindSucceeds(socks, port[p])

\* "except socket.error" catches the OSError of bind and listen: nothing
\* leaves start_server.
StartRaises(bound) == FALSE

\* start_server(h), line 58: the registry takes h.  The accept-loop threads
\* of an earlier start run before the socket is created: a command they
\* handle meanwhile is dispatched to h.
StartServerBegin(p, h, next) ==
  /\ Len(socks[p]) < StartLimit(p)
  /\ frontend' = [frontend EXCEPT ![p] = h]
  /\ probe' = [probe EXCEPT ![p].arg = h]
  /\ pc' = [pc EXCEPT ![p] = next]
  /\ Quiet
  /\ UNCHANGED <<running, msock, sthread, osVars, threads>>

\* start_server, lines 61-62: self.socket takes a new socket.  Rebinding
\* self.socket drops the last reference to the previous socket object unless
\* a thread is inside settimeout() or accept() on it.  The other threads of
\* the process run before bind is called.
StartServerSocket(p, next) ==
  LET old == msock[p]
      k == Len(socks[p]) + 1
      rel == IF old = NoSock THEN FALSE
             ELSE socks[p][old].st # "closed" /\ ~HoldsSock(p, old)
      ss1 == IF rel THEN SocksAfterClose(socks, p, old) ELSE socks
      cs1 == IF rel THEN ConnsAfterClose(conns, socks, p, old) ELSE conns
  IN
  /\ msock' = [msock EXCEPT ![p] = k]
  /\ conns' = SettleAll(cs1)
  /\ socks' = [ss1 EXCEPT ![p] = Append(@, NewSock)]
  /\ pc' = [pc EXCEPT ![p] = next]
  /\ Quiet
  /\ UNCHANGED <<running, sthread, frontend, threads, probe>>

\* start_server, lines 63-75: bind, listen, self.running = True, the thread
\* is created and started, return True; or the except branch, return False.
\* No thread of the process tells the listening socket of line 64 from the
\* flag of line 66: the loop test reads the flag alone, and a thread reads
\* self.socket only after a test that found the flag set.
StartServerEnd(p, next) ==
  LET k == msock[p]
      bound == StartBinds(p)
  IN
  /\ socks' = [socks EXCEPT ![p][k] =
                 IF bound THEN [@ EXCEPT !.st = "listening"] ELSE @]
  /\ running' = [running EXCEPT ![p] = StartRunning(bound, @)]
  /\ threads' = [threads EXCEPT ![p] = IF bound THEN Append(@, NewThread) ELSE @]
  /\ sthread' = [sthread EXCEPT ![p] = IF bound THEN Len(threads[p]) + 1 ELSE @]
  /\ Returns([RetOf(p, "start_server", StartReturn(bound))
              EXCEPT !.arg = probe[p].arg, !.exc = StartRaises(bound)])
  /\ probe' = [probe EXCEPT ![p] = NoProbe]
  /\ pc' = [pc EXCEPT ![p] = next]
  /\ UNCHANGED <<msock, frontend, conns>>

\* ------------------------------------------------------------- stop_server
Alive(th) == th.st \notin {"exited", "crashed"}

\* "if self.socket:" guards the close; a None socket is skipped.
StopCloses(k) == k # NoSock

\* self.running = False; self.socket.close(); then the join begins.
StopServerBegin(p, next) ==
  LET k == msock[p]
      cl == IF StopCloses(k) THEN socks[p][k].st # "closed" ELSE FALSE
  IN
  /\ running' = [running EXCEPT ![p] = FALSE]
  /\ socks' = IF cl THEN SocksAfterClose(socks, p, k) ELSE socks
  /\ conns' = IF cl THEN SettleAll(ConnsAfterClose(conns, socks, p, k)) ELSE conns
  /\ pc' = [pc EXCEPT ![p] = next]
  /\ Quiet
  /\ UNCHANGED <<msock, sthread, frontend, threads>>

\* What can keep a thread longer than the 2 s of the join: the handling of
\* a connection (the 5 s recv, and the decoding and dispatch after it, which
\* call foreign code: the truth test of the registered object), and an
\* accept() entered without a timeout.  The loop test and an accept() under
\* the 1 s timeout end within the join's 2 s.
OutlastsJoin(th) ==
  \/ th.st \in {"recv", "ack"}
  \/ th.st = "accept" /\ ~th.tmo

\* join(timeout=2.0) returns (the thread ended, or the timeout passed with
\* the thread still alive); then unregister_frontend().
JoinReturns(p) ==
  IF sthread[p] = 0 THEN TRUE
  ELSE IF ~Alive(threads[p][sthread[p]]) THEN TRUE
  ELSE OutlastsJoin(threads[p][sthread[p]])

\* unregister_frontend(): self.frontend_instance = None.
Unregistered(h) == NoHandle

StopServerEnd(p, next) ==
  /\ JoinReturns(p)
  /\ frontend' = [frontend EXCEPT ![p] = Unregistered(@)]
  /\ Returns(RetOf(p, "stop_server", "none"))
  /\ pc' = [pc EXCEPT ![p] = next]
  /\ UNCHANGED <<running, msock, sthread, socks, conns, threads>>

\* ------------------------------------------- register / unregister_frontend
\* A register_frontend without the "is None" test.
RegisterStoresAlways(cur) == TRUE

\* "if self.frontend_instance is None"
RegisterStores(cur) == cur = NoHandle

RegisterFrontend(p, h, next) ==
  /\ frontend' = [frontend EXCEPT ![p] = IF RegisterStores(@) THEN h ELSE @]
  /\ Returns([RetOf(p, "register_frontend",
                    IF RegisterStores(frontend[p]) THEN "true" ELSE "false")
              EXCEPT !.arg = h])
  /\ pc' = [pc EXCEPT ![p] = next]

UnregisterFrontend(p, next) ==
  /\ frontend' = [frontend EXCEPT ![p] = Unregistered(@)]
  /\ Returns(RetOf(p, "unregister_frontend", "none"))
  /\ pc' = [pc EXCEPT ![p] = next]

\* ------------------------------------------------- decoding and dispatching
\* bytes.decode("utf-8") of the received payload.
Utf8Decodes(d) == d # PBadUtf8

\* json.loads: "dict", another JSON value ("value"), or JSONDecodeError.
JsonLoads(d) ==
  IF d \in {PFocus, POther, PNoCmd} THEN "dict"
  ELSE IF d = PNonDict THEN "value"
  ELSE "error"

\* message.get("command").
CommandOf(d) ==
  IF d = PFocus THEN "focus" ELSE IF d = POther THEN "quit" ELSE "None"

\* A _handle_command that brings the window up for every command.
HandleSchedulesAnyCommand(d, fe) == Truth(fe) /\ WxAvailable

\* _handle_command: command == "focus" and self.frontend_instance, then
\* "if wx:" wx.CallAfter(self._bring_to_foreground).
HandleSchedules(d, fe) ==
  CommandOf(d) = "focus" /\ Truth(fe) /\ WxAvailable

\* What the loop body does with a non-empty payload (lines 85-94): the
\* acknowledgment it will send, whether _bring_to_foreground is scheduled,
\* and whether an exception leaves the loop.  UnicodeDecodeError (line 85)
\* and the AttributeError of message.get on a non-dict (line 107) are caught
\* by neither "except json.JSONDecodeError" nor the socket handlers.
ServeOutcome(d, fe) ==
  IF ~Utf8Decodes(d) THEN [ack |-> "", sched |-> FALSE, crash |-> TRUE]
  ELSE IF JsonLoads(d) = "error" THEN [ack |-> "ERROR", sched |-> FALSE, crash |-> FALSE]
  ELSE IF JsonLoads(d) = "value" THEN [ack |-> "", sched |-> FALSE, crash |-> TRUE]
  ELSE [ack |-> "OK", sched |-> HandleSchedules(d, fe), crash |-> FALSE]

\* ------------------------------------------------------------ _server_loop
\* Socket k of p after the call of thread t on it (settimeout or accept)
\* has returned.  A socket closed under an accept() leaves the kernel with
\* the last accept(); a socket self.socket no longer refers to is closed
\* with the last reference.
LeaveCall(ss, p, t, k) ==
  IF \/ /\ ss[p][k].st = "closing"
        /\ ~\E u \in 1..Len(threads[p]) :
              u # t /\ threads[p][u].st = "accept" /\ threads[p][u].ls = k
     \/ /\ ss[p][k].st \in {"unbound", "listening"}
        /\ msock[p] # k
        /\ ~\E u \in 1..Len(threads[p]) :
              u # t /\ threads[p][u].st \in {"settimeout", "accept"}
                    /\ threads[p][u].ls = k
  THEN [ss EXCEPT ![p][k] = ClosedSock] ELSE ss

LeaveCallConns(cs, ss, p, t, k) ==
  IF LeaveCall(ss, p, t, k) # ss THEN ResetQueued(cs, ss[p][k].q) ELSE cs

\* The thread function returns (loop left, or an exception unwinds it).
ThreadEnds(th, how) == [th EXCEPT !.st = how, !.conn = NoConn, !.ack = "",
                                  !.ls = NoSock, !.sched = FALSE, !.tmo = TRUE]

\* "while self.running:"
LoopContinues(r) == r

\* A socket object that has been closed: its methods raise EBADF.
ObjectClosed(sk) == sk.st \in {"closed", "closing"}

\* "while self.running:" and the loop's first read of self.socket (line
\* 81): the thread holds the object while it is inside settimeout.
ServerTop(p, t) ==
  /\ t \in 1..Len(threads[p])
  /\ threads[p][t].st = "top"
  /\ IF LoopContinues(running[p])
     THEN /\ threads' = [threads EXCEPT ![p][t].st = "settimeout",
                                        ![p][t].ls = msock[p]]
          /\ UNCHANGED conns
     ELSE /\ threads' = [threads EXCEPT ![p][t] = ThreadEnds(@, "exited")]
          /\ conns' = SettleAll(DropClient(conns, threads[p][t].conn, FALSE))
  /\ Quiet
  /\ UNCHANGED <<mode, pc, mgrVars, socks, uiq, win, appVars, probe>>

\* settimeout(1.0) (line 81) returns and the thread lets go of the object.
\* On a closed object settimeout raises OSError: except socket.error: break.
ServerSetTimeout(p, t) ==
  /\ t \in 1..Len(threads[p])
  /\ threads[p][t].st = "settimeout"
  /\ LET k == threads[p][t].ls IN
     IF ObjectClosed(socks[p][k])
     THEN /\ threads' = [threads EXCEPT ![p][t] = ThreadEnds(@, "exited")]
          /\ conns' = SettleAll(DropClient(conns, threads[p][t].conn, FALSE))
          /\ UNCHANGED socks
     ELSE LET ss1 == [socks EXCEPT ![p][k].tmo = TRUE] IN
          /\ threads' = [threads EXCEPT ![p][t].st = "enter", ![p][t].ls = NoSock]
          /\ socks' = LeaveCall(ss1, p, t, k)
          /\ conns' = SettleAll(LeaveCallConns(conns, ss1, p, t, k))
  /\ Quiet
  /\ UNCHANGED <<mode, pc, mgrVars, uiq, win, appVars, probe>>

\* self.socket.accept() (line 82) is called: the loop's second read of
\* self.socket, which a start_server in between has replaced by a socket
\* whose timeout nobody has set.  On a closed object the call raises EBADF
\* at once, on an unbound socket EINVAL: except socket.error: break.
ServerEnterAccept(p, t) ==
  /\ t \in 1..Len(threads[p])
  /\ threads[p][t].st = "enter"
  /\ LET k == msock[p] IN
     IF socks[p][k].st = "listening"
     THEN /\ threads' = [threads EXCEPT ![p][t].st = "accept", ![p][t].ls = k,
                                        ![p][t].tmo = socks[p][k].tmo]
          /\ UNCHANGED conns
     ELSE /\ threads' = [threads EXCEPT ![p][t] = ThreadEnds(@, "exited")]
          /\ conns' = SettleAll(DropClient(conns, threads[p][t].conn, FALSE))
  /\ Quiet
  /\ UNCHANGED <<mode, pc, mgrVars, socks, uiq, win, appVars, probe>>

\* How an accept() in progress ends: with a connection, socket.timeout
\* (continue) or socket.error (break).  Under the 1 s timeout the call polls
\* and then accepts on the object's descriptor: once the object is closed
\* it ends with socket.timeout or EBADF and never with a connection.
\* Without a timeout the call sits in the kernel's accept: it ends only with
\* a connection, also after the object was closed.
AcceptOutcomes(sk, tmo) ==
  IF tmo
  THEN IF sk.st = "listening"
       THEN IF sk.q # <<>> THEN {"conn"} ELSE {"timeout"}
       ELSE IF sk.st = "closing" THEN {"timeout", "error"} ELSE {"error"}
  ELSE IF sk.q # <<>> THEN {"conn"} ELSE {}

ServerAccept(p, t) ==
  /\ t \in 1..Len(threads[p])
  /\ threads[p][t].st = "accept"
  /\ LET k == threads[p][t].ls
         th == threads[p][t]
     IN \E o \in AcceptOutcomes(socks[p][k], th.tmo) :
        CASE o = "conn" ->
               LET c == Head(socks[p][k].q)
                   ss1 == [socks EXCEPT ![p][k].q = Tail(@)]
                   cs1 == [DropClient(conns, th.conn, FALSE) EXCEPT ![c].acc = "accepted"]
               IN /\ socks' = LeaveCall(ss1, p, t, k)
                  /\ conns' = SettleAll(LeaveCallConns(cs1, ss1, p, t, k))
                  /\ threads' = [threads EXCEPT ![p][t] =
                                   [th EXCEPT !.st = "recv", !.conn = c, !.ls = NoSock,
                                              !.tmo = TRUE]]
          [] o = "timeout" ->
               /\ socks' = LeaveCall(socks, p, t, k)
               /\ conns' = SettleAll(LeaveCallConns(conns, socks, p, t, k))
               /\ threads' = [threads EXCEPT ![p][t].st = "top", ![p][t].ls = NoSock]
          [] OTHER ->
               /\ socks' = LeaveCall(socks, p, t, k)
               /\ conns' = SettleAll(DropClient(LeaveCallConns(conns, socks, p, t, k),
                                                th.conn, FALSE))
               /\ threads' = [threads EXCEPT ![p][t] = ThreadEnds(@, "exited")]
  /\ Quiet
  /\ UNCHANGED <<mode, pc, mgrVars, uiq, win, appVars, probe>>

\* client_socket.settimeout(5.0); recv(1024).decode("utf-8"); the body of
\* "if data:" up to the dispatch.
RecvOutcomes(cn) ==
  IF cn.data # PNone THEN {"data"}
  ELSE IF cn.rst THEN {"error"}
  ELSE IF cn.cliClosed THEN {"empty"}
  ELSE {"timeout"}

ServerRecv(p, t) ==
  /\ t \in 1..Len(threads[p])
  /\ threads[p][t].st = "recv"
  /\ LET th == threads[p][t]
         c == th.conn
         d == conns[c].data
         out == ServeOutcome(d, frontend[p])
     IN \E o \in RecvOutcomes(conns[c]) :
        CASE o = "data" /\ out.crash ->
               \* the exception unwinds _server_loop: the thread dies
               /\ threads' = [threads EXCEPT ![p][t] = ThreadEnds(@, "crashed")]
               /\ conns' = SettleAll(DropClient(conns, c, TRUE))
               /\ Serves(ServedOf(p, d, "crash", ""))
               /\ UNCHANGED uiq
          [] o = "data" /\ ~out.crash ->
               /\ threads' = [threads EXCEPT ![p][t].st = "ack",
                                             ![p][t].ack = out.ack,
                                             ![p][t].sched = out.sched]
               /\ uiq' = [uiq EXCEPT ![p] = IF out.sched THEN Append(@, "btf") ELSE @]
               /\ Serves(Scheduling(ServedOf(p, d, "dispatched", ""), out.sched))
               /\ UNCHANGED conns
          [] o = "empty" ->
               \* "if data:" is false: straight to client_socket.close()
               /\ threads' = [threads EXCEPT ![p][t].st = "top",
                                             ![p][t].conn = NoConn]
               /\ conns' = SettleAll([conns EXCEPT ![c].srvClosed = TRUE])
               /\ Serves(ServedOf(p, d, "closed", ""))
               /\ UNCHANGED uiq
          [] o = "timeout" ->
               \* except socket.timeout: continue (client_socket stays open)
               /\ threads' = [threads EXCEPT ![p][t].st = "top"]
               /\ Serves(ServedOf(p, d, "timeout", ""))
               /\ UNCHANGED <<conns, uiq>>
          [] OTHER ->
               \* except socket.error: break
               /\ threads' = [threads EXCEPT ![p][t] = ThreadEnds(@, "exited")]
               /\ conns' = SettleAll(DropClient(conns, c, TRUE))
               /\ Serves(ServedOf(p, d, "error", ""))
               /\ UNCHANGED uiq
  /\ UNCHANGED <<mode, pc, mgrVars, socks, win, appVars, probe>>

\* client_socket.send(b"OK" / b"ERROR"); client_socket.close().
ServerAck(p, t) ==
  /\ t \in 1..Len(threads[p])
  /\ threads[p][t].st = "ack"
  /\ LET th == threads[p][t]
         c == th.conn
         d == conns[c].data
     IN IF conns[c].rst
        THEN \* send raises: except socket.error: break
             /\ threads' = [threads EXCEPT ![p][t] = ThreadEnds(@, "exited")]
             /\ conns' = SettleAll(DropClient(conns, c, TRUE))
             /\ Serves(ServedOf(p, d, "error", ""))
        ELSE /\ threads' = [threads EXCEPT ![p][t].st = "top", ![p][t].ack = "",
                                           ![p][t].conn = NoConn,
                                           ![p][t].sched = FALSE]
             /\ conns' = SettleAll([conns EXCEPT ![c].resp = th.ack, ![c].srvClosed = TRUE])
             /\ Serves(Scheduling(ServedOf(p, d, "closed", th.ack), th.sched))
  /\ UNCHANGED <<mode, pc, mgrVars, socks, uiq, win, appVars, probe>>

\* ------------------------------------------------------ _bring_to_foreground
\* What the frontend object does when asked: which attributes it has and
\* which method (if any) raises.  The object is foreign code (typed Any).
Healthy == [isShown |-> TRUE, isIconized |-> TRUE, rua |-> TRUE, raises |-> ""]

Behaviours ==
  {Healthy, [Healthy EXCEPT !.isShown = FALSE],
   [Healthy EXCEPT !.isIconized = FALSE], [Healthy EXCEPT !.rua = FALSE]}
  \cup {[Healthy EXCEPT !.raises = m] : m \in Methods}

\* The attributes hasattr() finds on the handle.
Offers(b) ==
  (IF b.isShown THEN {"IsShown"} ELSE {})
  \cup (IF b.isIconized THEN {"IsIconized"} ELSE {})
  \cup (IF b.rua THEN {"RequestUserAttention"} ELSE {})

\* A _bring_to_foreground that leaves a hidden window hidden.
PlannedCallsWithoutShow(w, b) ==
  <<"IsShown">>
  \o (IF b.isIconized
      THEN <<"IsIconized">> \o (IF w.iconized THEN <<"Iconize">> ELSE <<>>)
      ELSE <<>>)
  \o <<"Raise", "SetFocus">>
  \o (IF b.rua THEN <<"RequestUserAttention">> ELSE <<>>)

\* A _bring_to_foreground that takes the focus before it raises the window.
PlannedCallsFocusFirst(w, b) ==
  <<"IsShown">>
  \o (IF ~w.shown THEN <<"Show">> ELSE <<>>)
  \o (IF b.isIconized
      THEN <<"IsIconized">> \o (IF w.iconized THEN <<"Iconize">> ELSE <<>>)
      ELSE <<>>)
  \o <<"SetFocus", "Raise">>
  \o (IF b.rua THEN <<"RequestUserAttention">> ELSE <<>>)

\* The calls lines 132-150 make on a window in state w when nothing raises.
PlannedCalls(w, b) ==
  <<"IsShown">>
  \o (IF ~w.shown THEN <<"Show">> ELSE <<>>)
  \o (IF b.isIconized
      THEN <<"IsIconized">> \o (IF w.iconized THEN <<"Iconize">> ELSE <<>>)
      ELSE <<>>)
  \o <<"Raise", "SetFocus">>
  \o (IF b.rua THEN <<"RequestUserAttention">> ELSE <<>>)

\* The calls made up to and including the first one that raises.
FirstRaise(cs, m) ==
  IF \E i \in 1..Len(cs) : cs[i] = m
  THEN CHOOSE i \in 1..Len(cs) : cs[i] = m /\ \A j \in 1..(i - 1) : cs[j] # m
  ELSE 0

Executed(cs, m) ==
  IF FirstRaise(cs, m) = 0 THEN cs ELSE SubSeq(cs, 1, FirstRaise(cs, m))

Completed(cs, m, name) ==
  \E i \in 1..Len(cs) : cs[i] = name /\ (FirstRaise(cs, m) = 0 \/ i < FirstRaise(cs, m))

\* An exception handler that keeps the broken handle registered.
BtfKeepsHandle(h) == h

\* "except Exception": self.frontend_instance = None.
BtfAfterFailure(h) == NoHandle

\* Every handle call of _bring_to_foreground is inside its try block.
InsideTry(m) == m \in Methods

\* A _bring_to_foreground without its first test.
BtfNeverReturnsAtOnce(h) == FALSE

\* "if not self.frontend_instance: return"
BtfReturnsAtOnce(h) == ~Truth(h)

\* The result of one run: the calls made, the registry and the window
\* afterwards, the method that raised, whether an exception got out.
BtfRun(h, w, b) ==
  IF BtfReturnsAtOnce(h)
  THEN [calls |-> <<>>, fe |-> h, w |-> w, raised |-> "", exc |-> FALSE]
  ELSE IF ~b.isShown
  THEN [calls |-> <<>>, fe |-> NoHandle, w |-> w, raised |-> "", exc |-> FALSE]
  ELSE LET plan == PlannedCalls(w, b)
           ex == Executed(plan, b.raises)
           failed == FirstRaise(plan, b.raises) # 0
       IN [calls |-> ex,
           fe |-> IF failed THEN BtfAfterFailure(h) ELSE h,
           w |-> [shown |-> w.shown \/ Completed(plan, b.raises, "Show"),
                  iconized |-> w.iconized /\ ~Completed(plan, b.raises, "Iconize")],
           raised |-> IF failed THEN b.raises ELSE "",
           exc |-> failed /\ ~InsideTry(b.raises)]

\* A _handle_command that calls self._bring_to_foreground() itself.
CalledInline(caller) == caller

\* wx.CallAfter(self._bring_to_foreground): the call is queued and made by
\* the event loop of the UI thread, whichever thread queued it.
CallAfterRunsOn(caller) == "ui"

\* The UI thread is in its event loop: ShowModal in the program, between
\* calls in a test bench.
UiLoopRuns(p) ==
  /\ IF mode = "main" THEN pc[p] = "modal" ELSE pc[p] = "idle"
  /\ writer[p][UiThread].pc = "idle"

\* The event loop runs the next call wx.CallAfter queued.
UiDispatch(p) ==
  /\ UiLoopRuns(p)
  /\ uiq[p] # <<>>
  /\ \E b \in (IF Truth(frontend[p]) THEN Behaviours ELSE {Healthy}) :
       LET h == frontend[p]
           r == BtfRun(h, win[p], b)
       IN /\ frontend' = [frontend EXCEPT ![p] = r.fe]
          /\ win' = [win EXCEPT ![p] = r.w]
          /\ lastBtf' = [p |-> p, h |-> h,
                         hidden |-> h # NoHandle /\ ~win[p].shown,
                         iconized |-> h # NoHandle /\ win[p].iconized,
                         offers |-> IF Truth(h) THEN Offers(b) ELSE {},
                         thread |-> CallAfterRunsOn("accept-loop"),
                         calls |-> r.calls, raised |-> r.raised, fe |-> r.fe,
                         exc |-> r.exc]
  /\ ret' = NoRet /\ served' = NoServed
  /\ uiq' = [uiq EXCEPT ![p] = Tail(@)]
  /\ UNCHANGED <<mode, pc, running, msock, sthread, osVars, threads, appVars, probe>>

\* ------------------------------------------- status buffer and PluginThread
\* print_to_buffer: self.print_buffer += str(text) + "\n".  The statement
\* reads the attribute, builds the new string and stores it; the threads are
\* not synchronised, so another thread can run between the read and the
\* store.
Appended(buf, text) == buf \o text \o <<"\n">>

\* The read: the UI thread prints from an event handler of the open dialog,
\* an import thread from the moment the dialog started it.
PrintLoad(p, w, text) ==
  /\ mode = "main"
  /\ writer[p][w].pc = "idle"
  /\ writer[p][w].n < MaxPrints
  /\ IF w = UiThread THEN UiLoopRuns(p)
     ELSE window[p] \in {"open", "destroyed"} /\ pc[p] # "ended"
  /\ writer' = [writer EXCEPT ![p][w] =
                  [pc |-> "loaded", tmp |-> print_buffer[p], text |-> text, n |-> @.n]]
  /\ polled' = NoPolled
  /\ Quiet
  /\ UNCHANGED <<mode, pc, mgrVars, osVars, threads, uiq, win, window, poller,
                 print_buffer, pthread, evq, m_text, probe>>

\* The store.
PrintStore(p, w) ==
  /\ writer[p][w].pc = "loaded"
  /\ print_buffer' = [print_buffer EXCEPT ![p] =
                        Appended(writer[p][w].tmp, writer[p][w].text)]
  /\ writer' = [writer EXCEPT ![p][w] = IdleWriter(@.n + 1)]
  /\ polled' = NoPolled
  /\ Quiet
  /\ UNCHANGED <<mode, pc, mgrVars, osVars, threads, uiq, win, window, poller,
                 pthread, evq, m_text, probe>>

\* A PluginThread that never sees its stop flag.
StopNeverSeen(p) == FALSE

\* "while not self.stop_thread": the flag is stop_thread of the started
\* thread.
StopRequested(p) == poller[p] = "stopping"

PollTest(p) ==
  /\ poller[p] # "none"
  /\ pthread[p].pc = "test"
  /\ pthread' = [pthread EXCEPT ![p].pc = IF StopRequested(p) THEN "ended" ELSE "len"]
  /\ polled' = NoPolled
  /\ Quiet
  /\ UNCHANGED <<mode, pc, mgrVars, osVars, threads, uiq, win, window, poller,
                 print_buffer, writer, evq, m_text, probe>>

\* A poller that reports in every cycle.
PollerReportsAlways(watermark, size) == TRUE

\* "if len_str != current_len"
PollerReports(watermark, size) == watermark # size

\* current_len = len(backend_handler.print_buffer) and the comparison; an
\* unchanged length ends the cycle (sleep(0.5), then the loop test).
PollLen(p) ==
  LET size == Len(print_buffer[p]) IN
  /\ pthread[p].pc = "len"
  /\ IF PollerReports(pthread[p].len_str, size)
     THEN /\ pthread' = [pthread EXCEPT ![p].pc = "report", ![p].current_len = size]
          /\ polled' = NoPolled
     ELSE /\ pthread' = [pthread EXCEPT ![p].pc = "test", ![p].current_len = size]
          /\ polled' = [NoPolled EXCEPT !.p = p, !.k = "cycle",
                                        !.old = pthread[p].len_str, !.cur = size]
  /\ Quiet
  /\ UNCHANGED <<mode, pc, mgrVars, osVars, threads, uiq, win, window, poller,
                 print_buffer, writer, evq, m_text, probe>>

\* wx.PostEvent(self.wx_object, ResultEvent(status)): the handler bound with
\* EVT_UPDATE runs in the event loop of the window's thread.
PostEventRunsOn(caller) == "ui"

\* self.report(backend_handler.print_buffer): the buffer is read again and
\* posted; len_str = current_len; sleep(0.5), then the loop test.
PollReport(p) ==
  /\ pthread[p].pc = "report"
  /\ evq' = [evq EXCEPT ![p] = Append(@, print_buffer[p])]
  /\ pthread' = [pthread EXCEPT ![p].pc = "test",
                                ![p].len_str = pthread[p].current_len]
  /\ polled' = [NoPolled EXCEPT !.p = p, !.k = "cycle",
                                !.old = pthread[p].len_str,
                                !.cur = pthread[p].current_len,
                                !.posted = 1, !.data = print_buffer[p]]
  /\ Quiet
  /\ UNCHANGED <<mode, pc, mgrVars, osVars, threads, uiq, win, window, poller,
                 print_buffer, writer, m_text, probe>>

PollStep(p) == PollTest(p) \/ PollLen(p) \/ PollReport(p)

\* update_display: the event loop hands the next ResultEvent to the handler,
\* which calls self.m_text.SetValue(status.data).
UpdateDisplay(p) ==
  /\ UiLoopRuns(p)
  /\ evq[p] # <<>>
  /\ m_text' = [m_text EXCEPT ![p] = Head(evq[p])]
  /\ evq' = [evq EXCEPT ![p] = Tail(@)]
  /\ polled' = [NoPolled EXCEPT !.p = p, !.k = "display", !.data = Head(evq[p]),
                                !.thread = PostEventRunsOn("poller")]
  /\ Quiet
  /\ UNCHANGED <<mode, pc, mgrVars, osVars, threads, uiq, win, window, poller,
                 print_buffer, writer, pthread, probe>>

\* --------------------------------------------- the program's __main__ block
\* The positions of the main thread inside _print_initial_paths: before the
\* print_to_buffer call of lines 356, 357, 358 and 359.
PathLines == <<"print_mode", "print_source", "print_destination", "print_rule">>

\* The dialog object the program registers (there is one per process).
MainWindow == 1

\* time.sleep(0.5); sys.exit(0)  (impart_action.py lines 799-805)
MainExit(p) ==
  /\ mode = "main" /\ pc[p] = "sleep"
  /\ pc' = [pc EXCEPT ![p] = "exit0"]
  /\ Quiet
  /\ UNCHANGED <<mode, mgrVars, osVars, threads, uiq, win, appVars, probe>>

\* wx.App(); ImpartFrontend(): register_frontend(self), and on success the
\* GUI is set up and the PluginThread started (lines 292-317, 341-343); on
\* failure the dialog destroys itself.
MainCreate(p) ==
  /\ mode = "main" /\ pc[p] = "create"
  /\ RegisterFrontend(p, MainWindow,
                      IF RegisterStores(frontend[p]) THEN PathLines[1]
                      ELSE "start_server")
  /\ window' = [window EXCEPT ![p] =
                  IF RegisterStores(frontend[p]) THEN "created" ELSE "destroyed"]
  /\ poller' = [poller EXCEPT ![p] =
                  IF RegisterStores(frontend[p]) THEN "running" ELSE @]
  /\ UNCHANGED <<mode, running, msock, sthread, osVars, threads, uiq, win, probe,
                 pollVars>>

\* The constructor's last statement, _print_initial_paths: one of its four
\* print_to_buffer calls.  No other thread prints before the dialog is open,
\* so the read and the store of the call are one step; the PluginThread
\* reads the buffer between the calls.
MainPrintInitialPaths(p) ==
  /\ mode = "main"
  /\ \E i \in 1..Len(PathLines) :
       /\ pc[p] = PathLines[i]
       /\ pc' = [pc EXCEPT ![p] = IF i < Len(PathLines) THEN PathLines[i + 1]
                                  ELSE "start_server"]
  /\ print_buffer' = [print_buffer EXCEPT ![p] = Appended(@, <<"x">>)]
  /\ polled' = NoPolled
  /\ Quiet
  /\ UNCHANGED <<mode, mgrVars, osVars, threads, uiq, win, window, poller,
                 writer, pthread, evq, m_text, probe>>

\* A main program that gives up when the IPC server did not start.
AfterStartAbortingOnFailure(res) == IF res = "true" THEN "show_modal" ELSE "exit0"

\* "if not instance_manager.start_server(frontend): logging.warning(...
\* continuing anyway)": both results go on to frontend.ShowModal().
AfterStart(res) == "show_modal"

MainStartServer(p) ==
  /\ mode = "main" /\ pc[p] = "start_server"
  /\ StartServerBegin(p, MainWindow, "start_socket")
  /\ UNCHANGED <<mode, uiq, win, appVars>>

MainStartSocket(p) ==
  /\ mode = "main" /\ pc[p] = "start_socket"
  /\ StartServerSocket(p, "start_bind")
  /\ UNCHANGED <<mode, uiq, win, appVars>>

MainStartBind(p) ==
  /\ mode = "main" /\ pc[p] = "start_bind"
  /\ StartServerEnd(p, AfterStart(StartReturn(StartBinds(p))))
  /\ UNCHANGED <<mode, uiq, win, appVars>>

\* frontend.ShowModal(): the dialog is shown and its event loop runs.
MainShowModal(p) ==
  /\ mode = "main" /\ pc[p] = "show_modal"
  /\ window' = [window EXCEPT ![p] = IF @ = "created" THEN "open" ELSE @]
  /\ win' = [win EXCEPT ![p].shown = TRUE]
  /\ pc' = [pc EXCEPT ![p] = "modal"]
  /\ Quiet
  /\ UNCHANGED <<mode, mgrVars, osVars, threads, uiq, poller, pollVars, probe>>

\* on_close while an import runs, choice "background": Iconize(True), Veto.
OnCloseBackground(p) ==
  /\ mode = "main" /\ UiLoopRuns(p)
  /\ ~win[p].iconized
  /\ win' = [win EXCEPT ![p].iconized = TRUE]
  /\ Quiet
  /\ UNCHANGED <<mode, pc, mgrVars, osVars, threads, uiq, appVars, probe>>

\* on_close, closing: thread.stop_thread = True; instance_manager.stop_server()
OnClose(p) ==
  /\ mode = "main" /\ UiLoopRuns(p)
  /\ poller' = [poller EXCEPT ![p] = IF @ = "running" THEN "stopping" ELSE @]
  /\ StopServerBegin(p, "join_close")
  /\ UNCHANGED <<mode, uiq, win, window, pollVars, probe>>

\* ... stop_server returns; event.Skip() lets the dialog close.
OnCloseEnd(p) ==
  /\ mode = "main" /\ pc[p] = "join_close"
  /\ StopServerEnd(p, "modal_end")
  /\ UNCHANGED <<mode, uiq, win, appVars, probe>>

\* ShowModal returns; frontend.Destroy(); finally: stop_server()
MainDestroy(p) ==
  /\ mode = "main" /\ pc[p] = "modal_end"
  /\ window' = [window EXCEPT ![p] = "destroyed"]
  /\ win' = [win EXCEPT ![p].shown = FALSE]
  /\ StopServerBegin(p, "join_final")
  /\ UNCHANGED <<mode, uiq, poller, pollVars, probe>>

MainFinalStop(p) ==
  /\ mode = "main" /\ pc[p] = "join_final"
  /\ StopServerEnd(p, "done")
  /\ UNCHANGED <<mode, uiq, win, appVars, probe>>

\* The connections the accept-loop threads of p hold when the process goes
\* away: the kernel closes them, with a reset where data is still unread.
ProcessDrops(cs, p) ==
  [c \in ConnIds |->
     IF \E t \in 1..Len(threads[p]) : threads[p][t].conn = c
     THEN [cs[c] EXCEPT !.srvClosed = TRUE,
                        !.rst = @ \/ (cs[c].data # PNone /\
                                      \E t \in 1..Len(threads[p]) :
                                         threads[p][t].conn = c /\ threads[p][t].st # "ack")]
     ELSE IF cs[c].used /\ cs[c].srv = p /\ cs[c].acc = "pending"
     THEN [cs[c] EXCEPT !.rst = TRUE, !.acc = "dropped", !.srvClosed = TRUE]
     ELSE cs[c]]

\* The program has run to its end and the interpreter exits: it waits for
\* the threads that are not daemons (the PluginThread, which leaves its loop
\* at the next test of the stop flag, and the import threads); the
\* accept-loop threads are daemons (daemon=True) and end with the process,
\* and the kernel closes the sockets of the process.
ProcessExits(p) ==
  /\ mode = "main" /\ pc[p] = "done"
  /\ \/ poller[p] = "none"
     \/ StopRequested(p) /\ pthread[p].pc \in {"test", "ended"}
  /\ \A w \in Writers : writer[p][w].pc = "idle"
  /\ pc' = [pc EXCEPT ![p] = "ended"]
  /\ pthread' = [pthread EXCEPT ![p].pc = IF poller[p] = "none" THEN @ ELSE "ended"]
  /\ threads' = [threads EXCEPT ![p] =
                   [t \in 1..Len(@) |-> IF Alive(@[t]) THEN ThreadEnds(@[t], "exited")
                                        ELSE @[t]]]
  /\ socks' = [socks EXCEPT ![p] = [k \in 1..Len(@) |-> ClosedSock]]
  /\ conns' = SettleAll(ProcessDrops(conns, p))
  /\ polled' = NoPolled
  /\ Quiet
  /\ UNCHANGED <<mode, mgrVars, uiq, win, window, poller, print_buffer, writer,
                 evq, m_text, probe>>

\* ------------------------------------------- a test bench calling the methods
ApiStartServer(p) ==
  /\ mode = "api" /\ pc[p] = "idle"
  /\ \E h \in Handles : StartServerBegin(p, h, "start_socket")
  /\ UNCHANGED <<mode, uiq, win, appVars>>

ApiStartSocket(p) ==
  /\ mode = "api" /\ pc[p] = "start_socket"
  /\ StartServerSocket(p, "start_bind")
  /\ UNCHANGED <<mode, uiq, win, appVars>>

ApiStartBind(p) ==
  /\ mode = "api" /\ pc[p] = "start_bind"
  /\ StartServerEnd(p, "idle")
  /\ UNCHANGED <<mode, uiq, win, appVars>>

ApiStopServer(p) ==
  /\ mode = "api" /\ pc[p] = "idle"
  /\ StopServerBegin(p, "join_api")
  /\ UNCHANGED <<mode, uiq, win, appVars, probe>>

ApiStopJoin(p) ==
  /\ mode = "api" /\ pc[p] = "join_api"
  /\ StopServerEnd(p, "idle")
  /\ UNCHANGED <<mode, uiq, win, appVars, probe>>

ApiRegister(p) ==
  /\ mode = "api" /\ pc[p] = "idle"
  /\ \E h \in Handles : RegisterFrontend(p, h, "idle")
  /\ UNCHANGED <<mode, running, msock, sthread, osVars, threads, uiq, win, appVars, probe>>

ApiUnregister(p) ==
  /\ mode = "api" /\ pc[p] = "idle"
  /\ UnregisterFrontend(p, "idle")
  /\ UNCHANGED <<mode, running, msock, sthread, osVars, threads, uiq, win, appVars, probe>>

\* The registered window is hidden, shown or minimised from outside the
\* manager.
EnvHide(p) ==
  /\ mode = "api" /\ frontend[p] # NoHandle
  /\ win' = [win EXCEPT ![p].shown = ~@]
  /\ Quiet
  /\ UNCHANGED <<mode, pc, mgrVars, osVars, threads, uiq, appVars, probe>>

EnvIconize(p) ==
  /\ mode = "api" /\ frontend[p] # NoHandle
  /\ ~win[p].iconized
  /\ win' = [win EXCEPT ![p].iconized = TRUE]
  /\ Quiet
  /\ UNCHANGED <<mode, pc, mgrVars, osVars, threads, uiq, appVars, probe>>

\* ------------------------------------------------ foreign clients of the port
EnvConnect ==
  /\ mode = "api"
  /\ FreeConnIds # {}
  /\ \E lk \in Listeners(DefaultPort) :
       /\ Len(socks[lk[1]][lk[2]].q) <= ListenBacklog
       /\ LET c == CHOOSE x \in FreeConnIds : \A y \in FreeConnIds : x <= y IN
          /\ conns' = [conns EXCEPT ![c] =
                         [FreeConn EXCEPT !.used = TRUE, !.cli = EnvClient,
                                          !.srv = lk[1], !.ls = lk[2]]]
          /\ socks' = [socks EXCEPT ![lk[1]][lk[2]].q = Append(@, c)]
  /\ Quiet
  /\ UNCHANGED <<mode, pc, mgrVars, threads, uiq, win, appVars, probe>>

EnvOpen(c) ==
  /\ conns[c].used /\ conns[c].cli = EnvClient
  /\ ~conns[c].cliClosed /\ ~conns[c].rst

EnvSend(c) ==
  /\ mode = "api"
  /\ EnvOpen(c) /\ conns[c].data = PNone
  /\ \E d \in Payloads : conns' = [conns EXCEPT ![c].data = d]
  /\ Quiet
  /\ UNCHANGED <<mode, pc, mgrVars, socks, threads, uiq, win, appVars, probe>>

EnvClose(c) ==
  /\ mode = "api"
  /\ EnvOpen(c)
  /\ conns' = SettleAll([conns EXCEPT ![c].cliClosed = TRUE])
  /\ Quiet
  /\ UNCHANGED <<mode, pc, mgrVars, socks, threads, uiq, win, appVars, probe>>

\* The peer aborts the connection (RST), before or after it sent its
\* payload; what it sent before stays readable.
EnvAbort(c) ==
  /\ mode = "api"
  /\ EnvOpen(c)
  /\ conns' = SettleAll([conns EXCEPT ![c].rst = TRUE, ![c].cliClosed = TRUE])
  /\ Quiet
  /\ UNCHANGED <<mode, pc, mgrVars, socks, threads, uiq, win, appVars, probe>>

\* ---------------------------------------------------------- specifications
InitCommon ==
  /\ running = [p \in Procs |-> FALSE]
  /\ msock = [p \in Procs |-> NoSock]
  /\ sthread = [p \in Procs |-> 0]
  /\ frontend = [p \in Procs |-> NoHandle]
  /\ socks = [p \in Procs |-> <<>>]
  /\ threads = [p \in Procs |-> <<>>]
  /\ conns = [c \in ConnIds |-> FreeConn]
  /\ uiq = [p \in Procs |-> <<>>]
  /\ win = [p \in Procs |-> [shown |-> FALSE, iconized |-> FALSE]]
  /\ window = [p \in Procs |-> "none"]
  /\ poller = [p \in Procs |-> "none"]
  /\ writer = [p \in Procs |-> [w \in Writers |-> IdleWriter(0)]]
  /\ pthread = [p \in Procs |-> NewPluginThread]
  /\ evq = [p \in Procs |-> <<>>]
  /\ m_text = [p \in Procs |-> <<>>]
  /\ polled = NoPolled
  /\ probe = [p \in Procs |-> NoProbe]
  /\ ret = NoRet
  /\ served = NoServed
  /\ lastBtf = NoBtf

\* ImpartBackend.__init__ runs when the module is loaded, before __main__:
\* print_buffer = "", and when the configuration is not set yet
\* _print_initial_warnings makes three print_to_buffer calls, the last one
\* with a text that starts and ends with a newline.
InitialWarnings(buf) ==
  Appended(Appended(Appended(buf, <<"x">>), <<"x">>), <<"\n", "x", "\n">>)

\* n calls of print_to_buffer with a line each.
RECURSIVE Lines(_)
Lines(n) == IF n = 0 THEN <<>> ELSE Appended(Lines(n - 1), <<"x">>)

\* self.kicad_app.check_min_version(output_func=self.print_to_buffer) (line
\* 158; the callee is not among the sources): what it leaves in the buffer,
\* nothing or the lines it printed with print_to_buffer.  An exception it
\* raises is caught and logged.
VersionOutputs == {Lines(n) : n \in 0..MaxVersionLines}

\* print_buffer when ImpartBackend.__init__ returns.
InitialBuffers ==
  {IF config_is_set THEN version_output ELSE InitialWarnings(version_output) :
     version_output \in VersionOutputs, config_is_set \in BOOLEAN}

\* Every process constructs its own ImpartBackend at its start: it reads the
\* configuration as it is then and makes its own version check.
Init ==
  /\ mode = "main"
  /\ pc = [p \in Procs |-> "start"]
  /\ print_buffer \in [Procs -> InitialBuffers]
  /\ InitCommon

\* A test bench builds managers only: no status buffer is in use.
InitApi ==
  /\ mode = "api"
  /\ pc = [p \in Procs |-> "idle"]
  /\ print_buffer = [p \in Procs |-> <<>>]
  /\ InitCommon

ServerStep(p) ==
  \E t \in 1..MaxStarts :
     \/ ServerTop(p, t)
     \/ ServerSetTimeout(p, t)
     \/ ServerEnterAccept(p, t)
     \/ ServerAccept(p, t)
     \/ ServerRecv(p, t)
     \/ ServerAck(p, t)

ProbeStep(p) ==
  \/ ProbeConnect(p)
  \/ ProbeSend(p)
  \/ ProbeRecv(p)

Next ==
  \E p \in Procs :
     \/ ProbeStep(p)
     \/ MainExit(p)
     \/ MainCreate(p)
     \/ MainPrintInitialPaths(p)
     \/ MainStartServer(p)
     \/ MainStartSocket(p)
     \/ MainStartBind(p)
     \/ MainShowModal(p)
     \/ OnCloseBackground(p)
     \/ OnClose(p)
     \/ OnCloseEnd(p)
     \/ MainDestroy(p)
     \/ MainFinalStop(p)
     \/ ProcessExits(p)
     \/ UiDispatch(p)
     \/ ServerStep(p)

Spec == Init /\ [][Next]_vars

\* The primary runs the program alone; its accept loop idles.
NextPoll ==
  \/ ProbeConnect(Primary)
  \/ MainCreate(Primary)
  \/ MainPrintInitialPaths(Primary)
  \/ MainStartServer(Primary)
  \/ MainStartSocket(Primary)
  \/ MainStartBind(Primary)
  \/ MainShowModal(Primary)
  \/ OnClose(Primary)
  \/ OnCloseEnd(Primary)
  \/ MainDestroy(Primary)
  \/ MainFinalStop(Primary)
  \/ ProcessExits(Primary)
  \/ \E t \in 1..MaxStarts :
        \/ ServerTop(Primary, t)
        \/ ServerSetTimeout(Primary, t)
        \/ ServerEnterAccept(Primary, t)
        \/ ServerAccept(Primary, t)
  \/ \E w \in Writers : \E text \in Texts : PrintLoad(Primary, w, text)
  \/ \E w \in Writers : PrintStore(Primary, w)
  \/ PollStep(Primary)
  \/ UpdateDisplay(Primary)

\* ... on a configured installation whose version check prints nothing:
\* every process starts with an empty buffer.
InitConfigured == Init /\ \A p \in Procs : print_buffer[p] = <<>>

SpecPoll == InitConfigured /\ [][NextPoll]_vars

\* The same without import threads: only the UI thread prints.
NextPollUi ==
  \/ ProbeConnect(Primary)
  \/ MainCreate(Primary)
  \/ MainPrintInitialPaths(Primary)
  \/ MainStartServer(Primary)
  \/ MainStartSocket(Primary)
  \/ MainStartBind(Primary)
  \/ MainShowModal(Primary)
  \/ OnClose(Primary)
  \/ OnCloseEnd(Primary)
  \/ MainDestroy(Primary)
  \/ MainFinalStop(Primary)
  \/ ProcessExits(Primary)
  \/ \E t \in 1..MaxStarts :
        \/ ServerTop(Primary, t)
        \/ ServerSetTimeout(Primary, t)
        \/ ServerEnterAccept(Primary, t)
        \/ ServerAccept(Primary, t)
  \/ \E text \in Texts : PrintLoad(Primary, UiThread, text)
  \/ PrintStore(Primary, UiThread)
  \/ PollStep(Primary)
  \/ UpdateDisplay(Primary)

\* ... with the primary started on any installation,
InitPrimary == Init /\ \A p \in Peers : print_buffer[p] = <<>>

\* and the PluginThread is scheduled.
FairPoll == InitPrimary /\ [][NextPollUi]_vars /\ WF_vars(PollStep(Primary))

\* The primary runs the program and its status relay (its constructor
\* prints, its PluginThread polls, its dialog displays) while the other
\* processes start up, probe the port and leave.
NextRelay ==
  \/ ProbeStep(Primary)
  \/ MainCreate(Primary)
  \/ MainPrintInitialPaths(Primary)
  \/ MainStartServer(Primary)
  \/ MainStartSocket(Primary)
  \/ MainStartBind(Primary)
  \/ MainShowModal(Primary)
  \/ OnClose(Primary)
  \/ OnCloseEnd(Primary)
  \/ MainDestroy(Primary)
  \/ MainFinalStop(Primary)
  \/ ProcessExits(Primary)
  \/ UiDispatch(Primary)
  \/ ServerStep(Primary)
  \/ PollStep(Primary)
  \/ UpdateDisplay(Primary)
  \/ \E p \in Peers : ProbeStep(p) \/ MainExit(p)

SpecRelay == InitConfigured /\ [][NextRelay]_vars

\* The accept loop of p as far as it gets when no peer sends anything.
IdleServerStep(p) ==
  \E t \in 1..MaxStarts :
     \/ ServerTop(p, t)
     \/ ServerSetTimeout(p, t)
     \/ ServerEnterAccept(p, t)
     \/ ServerAccept(p, t)
     \/ ServerRecv(p, t)

\* A test bench exercising the life cycle of a manager: start_server and
\* stop_server of the primary's manager in any order, peers competing for the
\* port, and foreign clients that connect and go away without sending.
NextApi ==
  \/ ApiStartServer(Primary)
  \/ ApiStartSocket(Primary)
  \/ ApiStartBind(Primary)
  \/ ApiStopServer(Primary)
  \/ ApiStopJoin(Primary)
  \/ \E p \in Peers :
        \/ ApiStartServer(p)
        \/ ApiStartSocket(p)
        \/ ApiStartBind(p)
        \/ ApiStopServer(p)
        \/ ApiStopJoin(p)
  \/ \E p \in Procs : IdleServerStep(p)
  \/ EnvConnect
  \/ \E c \in ConnIds : EnvClose(c)

SpecApi == InitApi /\ [][NextApi]_vars

\* SpecApi with the scheduling the runtime provides: the accept-loop threads
\* keep running and a stop_server call returns once its join allows it.
\* Nothing obliges a client to connect.
FairApi ==
  /\ SpecApi
  /\ \A p \in Procs :
        /\ WF_vars(IdleServerStep(p))
        /\ WF_vars(ApiStopJoin(p))

\* A test bench exercising the Frontend Registry of one manager.
NextReg ==
  \/ ApiStartServer(Primary)
  \/ ApiStartSocket(Primary)
  \/ ApiStartBind(Primary)
  \/ ApiStopServer(Primary)
  \/ ApiStopJoin(Primary)
  \/ ApiRegister(Primary)
  \/ ApiUnregister(Primary)
  \/ IdleServerStep(Primary)
  \/ EnvConnect
  \/ \E c \in ConnIds : EnvClose(c)

SpecReg == InitApi /\ [][NextReg]_vars

\* A test bench exercising the protocol: a peer owns the coordinator, the
\* primary probes it, foreign clients send arbitrary payloads, and the
\* owner's UI loop runs the scheduled calls.
NextServe ==
  \/ \E p \in Peers :
        \/ ApiStartServer(p)
        \/ ApiStartSocket(p)
        \/ ApiStartBind(p)
        \/ ApiStopServer(p)
        \/ ApiStopJoin(p)
        \/ EnvHide(p)
        \/ EnvIconize(p)
        \/ UiDispatch(p)
        \/ ServerStep(p)
  \/ ProbeStep(Primary)
  \/ EnvConnect
  \/ \E c \in ConnIds : EnvSend(c) \/ EnvClose(c) \/ EnvAbort(c)

SpecServe == InitApi /\ [][NextServe]_vars

\* SpecServe with the scheduling the runtime provides: the accept-loop thread
\* keeps running, a stop_server call returns once its join allows it, and the
\* UI event loop runs a scheduled call whenever the UI thread is idle again
\* and again.
FairServe ==
  /\ SpecServe
  /\ \A p \in Peers :
        /\ WF_vars(ServerStep(p))
        /\ WF_vars(ApiStopJoin(p))
        /\ SF_vars(UiDispatch(p))

\* ------------------------------------------------- properties: start-up
WindowOpen(p) == window[p] = "open"

\* C1: across every interleaving of process start-ups on the same port, at
\* most one process has an interactive front-end window open at any time.
C1_AtMostOneWindow ==
  Cardinality({p \in Procs : WindowOpen(p)}) <= 1

\* The process has built nothing: no window, no registered handle, no status
\* poller, no socket and no accept-loop thread.
BuiltNothing(p) ==
  /\ window[p] = "none"
  /\ frontend[p] = NoHandle
  /\ poller[p] = "none"
  /\ socks[p] = <<>>
  /\ threads[p] = <<>>
  /\ ~running[p]

\* C7: when the start-up probe returns true, the focus command has been sent
\* and the process goes to sys.exit(0); a process on that path has created no
\* window, registered no handle and started neither a poller nor a server.
C7_ProbeTrueExitsQuietly ==
  /\ (mode = "main" /\ ret.op = "is_already_running" /\ ret.val = "true")
        => (ret.sent /\ pc[ret.p] = "sleep")
  /\ \A p \in Procs : pc[p] \in {"sleep", "exit0"} => BuiltNothing(p)

\* A process has exited with status 0 while the instance it found shows its
\* window.
C7_Witness ==
  \E p, q \in Procs : pc[p] = "exit0" /\ BuiltNothing(p) /\ WindowOpen(q)

\* ------------------------------------------------ properties: life cycle
\* p holds a socket on which the kernel still accepts connections (also one
\* closed under a blocked accept()).
HoldsListening(p) == \E k \in 1..Len(socks[p]) : HoldsPort(socks[p][k])

OthersListening(p) == \E q \in Procs \ {p} : HoldsListening(q)

\* C2: while another coordinator is listening on the port, start_server
\* returns false and its manager does not become listening; a manager's
\* running flag is set only by a start that bound the port; and no two
\* coordinators are listening on the port at the same time.
C2_ExclusiveListening ==
  /\ (ret.op = "start_server" /\ OthersListening(ret.p))
        => (ret.val = "false" /\ ~HoldsListening(ret.p))
  /\ \A p \in Procs : running[p] => threads[p] # <<>>
  /\ Cardinality({p \in Procs : HoldsListening(p)}) <= 1

\* A peer's start_server has just returned false, having never run, while
\* the primary is listening.
C2_Witness ==
  \E p \in Peers :
     /\ ret.op = "start_server" /\ ret.p = p /\ ret.val = "false"
     /\ ~running[p] /\ HoldsListening(Primary) /\ running[Primary]

\* C8: stop_server never raises, also before any start_server or when called
\* twice in a row; when it returns the port is free of its manager: the
\* manager holds no listening socket and its running flag is false; and a
\* start_server returns false only when the port is held, so a start that
\* follows a stop binds unless another coordinator took the port.
C8_StopFreesPort ==
  /\ ret.op = "stop_server"
        => (~ret.exc /\ ~running[ret.p] /\ ~HoldsListening(ret.p))
  /\ (ret.op = "start_server" /\ ret.val = "false") => PortHeld(port[ret.p])
  /\ (ret.op = "start_server" /\ ret.val = "true")
        => (running[ret.p] /\ socks[ret.p][msock[ret.p]].st = "listening")

\* C9: register_frontend(h) returns true exactly when no handle was
\* registered, and then h is registered; otherwise it returns false and the
\* registered handle is unchanged.  unregister_frontend leaves no handle
\* registered, so that the next register_frontend returns true.
C9_RegisterContract ==
  /\ ret.op = "register_frontend" =>
       /\ ret.val = (IF ret.pre = NoHandle THEN "true" ELSE "false")
       /\ frontend[ret.p] = (IF ret.pre = NoHandle THEN ret.arg ELSE ret.pre)
  /\ ret.op = "unregister_frontend" => frontend[ret.p] = NoHandle

\* register_frontend has just refused a second, different handle.
C9_Witness ==
  /\ ret.op = "register_frontend" /\ ret.val = "false"
  /\ ret.pre # NoHandle /\ ret.arg # ret.pre
  /\ frontend[ret.p] = ret.pre

\* -------------------------------------------------- properties: protocol
\* The server is done with a connection on which a payload arrived: it has
\* closed it, or the thread handling it has died.
DoneWith(d) == served.data = d /\ served.what \in {"closed", "crash"}

Messages == {PFocus, POther, PNoCmd}
Malformed == Payloads \ Messages

\* The acknowledgments the protocol allows for a payload: OK for a message,
\* ERROR for what does not decode; a JSON value that is not an object is
\* owed one of the two.
ExpectedAck(d) ==
  IF d \in Messages THEN {"OK"}
  ELSE IF d = PNonDict THEN {"OK", "ERROR"}
  ELSE {"ERROR"}

\* C4: for every accepted connection that delivered a payload, the server
\* writes one acknowledgment before it lets go of the connection: OK when the
\* payload decodes as a message, ERROR when it does not decode.
C4_OneAckPerConnection ==
  \A d \in Payloads : DoneWith(d) => served.ack \in ExpectedAck(d)

\* C5: a malformed payload never terminates the server loop: the server
\* answers ERROR and the accept-loop thread goes on to the next iteration.
C5_MalformedNeverKillsLoop ==
  \A d \in Malformed :
     DoneWith(d) => (served.ack = "ERROR" /\ served.what = "closed")

ProbeReturned == ret.op = "is_already_running"

\* The connections a process holds open as a client.
ClientConns(p) ==
  {c \in ConnIds : conns[c].used /\ conns[c].cli = p /\ ~conns[c].cliClosed}

\* C6: is_already_running makes one connection attempt and never raises; it
\* returns true exactly when the connection was established and the focus
\* message sent without a transport error (acknowledged, closed by the peer,
\* or unanswered until the receive timeout), and false on refusal, connect
\* timeout, a failed send or a reset connection.  When it returns, its
\* connection is closed.
C6_ProbeResult ==
  /\ ProbeReturned =>
       /\ ~ret.exc
       /\ ret.why \in {"ack", "eof", "noack", "refused", "timeout", "senderr", "reset"}
       /\ ret.val = (IF ret.why \in {"ack", "eof", "noack"} THEN "true" ELSE "false")
       /\ ret.val = "true" => ret.sent
       /\ ClientConns(ret.p) = {}
  /\ Cardinality(ClientConns(Primary)) <= 1

\* The probe has just returned true although no acknowledgment arrived before
\* its receive timeout.
C6_Witness ==
  ProbeReturned /\ ret.val = "true" /\ ret.why = "noack" /\ ret.sent

\* -------------------------------------------------- properties: dispatch
Invoked(m) == \E i \in 1..Len(lastBtf.calls) : lastBtf.calls[i] = m

\* A _bring_to_foreground run met a broken handle: it passed the test of
\* line 118 and a method raised, or the handle has no IsShown.
BrokenRun ==
  /\ lastBtf.p # 0 /\ Truth(lastBtf.h)
  /\ (lastBtf.raised # "" \/ lastBtf.calls = <<>>)

\* C10: when a method of the registered handle raises during
\* _bring_to_foreground, or the handle has no IsShown, no exception leaves
\* _bring_to_foreground and the registry is empty afterwards; with an empty
\* registry a focus command schedules nothing and a _bring_to_foreground
\* that still runs invokes no handle method and raises nothing.
C10_SelfHealingDispatch ==
  /\ lastBtf.p # 0 => ~lastBtf.exc
  /\ BrokenRun => frontend[lastBtf.p] = NoHandle
  /\ (lastBtf.p # 0 /\ lastBtf.h = NoHandle)
        => (lastBtf.calls = <<>> /\ frontend[lastBtf.p] = NoHandle)
  /\ (served.what = "dispatched" /\ served.sched) => Truth(frontend[served.p])

\* Raise has just raised on the registered handle and the registry is empty.
C10_Witness ==
  /\ BrokenRun /\ lastBtf.raised = "Raise" /\ Invoked("Raise")
  /\ frontend[lastBtf.p] = NoHandle

\* ------------------------------------------- properties: focus forwarding
\* A probe has just received its acknowledgment while p's coordinator runs
\* with a registered handle whose window is hidden and the call it scheduled
\* is waiting for the UI loop.
AckedWhileHidden(p) ==
  /\ ProbeReturned /\ ret.why = "ack"
  /\ running[p] /\ frontend[p] # NoHandle /\ ~win[p].shown
  /\ uiq[p] # <<>>

RanOn(p) == lastBtf.p = p

\* C3, as first stated: after such an acknowledgment the handle's Show and Raise are
\* eventually invoked (unless the handle turns out to be broken).
C3_FocusShowsAndRaises ==
  \A p \in Peers :
     [](AckedWhileHidden(p)
          => <>(RanOn(p) /\ (BrokenRun \/ (Invoked("Show") /\ Invoked("Raise")))))

\* A run on a registered handle that has IsShown and whose methods did not
\* raise.
HealthyRun ==
  lastBtf.p # 0 /\ lastBtf.h # NoHandle /\ lastBtf.raised = "" /\ lastBtf.calls # <<>>

\* The accept loop of p has just dispatched a focus command (its
\* acknowledgment is not written yet).
FocusDispatched(p) ==
  served.p = p /\ served.what = "dispatched" /\ served.data = PFocus

\* A thread of p is about to acknowledge with OK, having scheduled a call
\* (s = TRUE) or not; the peer has no answer yet.
AboutToAckOK(p, s) ==
  \E t \in 1..Len(threads[p]) :
     /\ threads[p][t].st = "ack" /\ threads[p][t].ack = "OK"
     /\ threads[p][t].sched = s
     /\ conns[threads[p][t].conn].resp = ""

\* C3: a focus command dispatched while a handle with a true truth value is
\* registered has _bring_to_foreground scheduled before its
\* acknowledgment OK is written, and the scheduled call eventually runs;
\* dispatched with no handle, or with a handle whose truth value is false,
\* it is acknowledged with OK and nothing is scheduled.  A run on a
\* registered handle whose methods do not raise invokes Raise, and invokes
\* Show exactly when the window is hidden at that moment; a run that finds
\* no handle (unregistered in the meantime) invokes nothing.
C3_FocusForwarded ==
  /\ [](\A p \in Peers :
          (FocusDispatched(p) /\ Truth(frontend[p]))
             => (served.sched /\ uiq[p] # <<>> /\ AboutToAckOK(p, TRUE)))
  /\ [](\A p \in Peers :
          (FocusDispatched(p) /\ ~Truth(frontend[p]))
             => (~served.sched /\ AboutToAckOK(p, FALSE)))
  /\ [](HealthyRun => (Invoked("Raise") /\ (Invoked("Show") <=> lastBtf.hidden)))
  /\ []((lastBtf.p # 0 /\ ~Truth(lastBtf.h)) => lastBtf.calls = <<>>)
  /\ \A p \in Peers :
        []((FocusDispatched(p) /\ Truth(frontend[p])) => <>RanOn(p))

\* The probe's focus command has been acknowledged (the OK is on its way to
\* the probe) and the call it scheduled has just shown and raised the hidden
\* window.
C3_Witness ==
  /\ HealthyRun /\ lastBtf.hidden
  /\ Invoked("Show") /\ Invoked("Raise")
  /\ win[lastBtf.p].shown
  /\ pc[Primary] = "probe_recv"
  /\ IF probe[Primary].conn = NoConn THEN FALSE
     ELSE conns[probe[Primary].conn].resp = "OK"

\* ------------------------------------------------------------------- C11
\* The start_server call that has just returned could not bind: the socket
\* it created is still unbound and no accept-loop thread was started for it.
StartFailed ==
  /\ ret.op = "start_server"
  /\ socks[ret.p][msock[ret.p]].st = "unbound"

\* C11: a start_server whose bind fails returns False and raises nothing
\* (and returns False only then); the main program then goes on to
\* ShowModal with the dialog it created, and the dialog is open while the
\* modal loop runs, whether or not the coordinator is listening.
C11_BindFailureDegrades ==
  /\ ret.op = "start_server" =>
        /\ ~ret.exc
        /\ (ret.val = "false") = StartFailed
        /\ ret.val \in {"true", "false"}
  /\ (StartFailed /\ mode = "main") =>
        /\ pc[ret.p] = "show_modal"
        /\ window[ret.p] = "created"
  /\ \A p \in Procs : pc[p] = "modal" => window[p] = "open"

\* A process sits in its modal loop with its dialog open although its
\* start_server failed: it is not running and its socket never got bound.
C11_Witness ==
  \E p \in Procs :
     /\ pc[p] = "modal" /\ window[p] = "open"
     /\ ~running[p]
     /\ msock[p] # NoSock
     /\ IF msock[p] = NoSock THEN FALSE ELSE socks[p][msock[p]].st = "unbound"

\* ------------------------------------------------------------------- C13
\* A thread of p is inside an accept() on socket k that it entered without
\* a timeout.
UntimedAccept(p, k) ==
  \E t \in 1..Len(threads[p]) :
     threads[p][t].st = "accept" /\ threads[p][t].ls = k /\ ~threads[p][t].tmo

\* C13: when stop_server returns, it returns normally, the running flag is
\* False, no handle is registered and the socket the coordinator refers to
\* (self.socket) is closed: the kernel's listening socket is gone, or goes
\* within the 1 s timeout of the accept() calls in progress on it; this
\* includes the returns after a join that timed out.
C13_StopPostcondition ==
  ret.op = "stop_server" =>
     /\ ~ret.exc
     /\ ret.val = "none"
     /\ ~running[ret.p]
     /\ frontend[ret.p] = NoHandle
     /\ IF msock[ret.p] = NoSock THEN TRUE
        ELSE \/ socks[ret.p][msock[ret.p]].st = "closed"
             \/ /\ socks[ret.p][msock[ret.p]].st = "closing"
                /\ ~UntimedAccept(ret.p, msock[ret.p])

\* ------------------------------------------------------------------- C16
\* The accept-loop threads of p that hold an accepted connection: between
\* the return of accept() and the end of the iteration.
Handling(p) ==
  {t \in 1..Len(threads[p]) : threads[p][t].st \in {"recv", "ack"}}

\* C16: a thread about to acknowledge has decoded and dispatched before
\* (a scheduled call implies the decoded command and the answer OK), and a
\* coordinator never has two accepted connections in handling at once.
C16_OneConnectionAtATime ==
  \A p \in Procs :
     /\ \A t \in Handling(p) :
           threads[p][t].st = "ack" =>
              /\ threads[p][t].ack \in {"OK", "ERROR"}
              /\ threads[p][t].sched => threads[p][t].ack = "OK"
     /\ Cardinality(Handling(p)) <= 1

\* ------------------------------------------------------------------- C17
\* stop_server has been called on a coordinator that had started a thread.
Stopped(p) == ~running[p] /\ threads[p] # <<>>

AllExited(p) == \A t \in 1..Len(threads[p]) : ~Alive(threads[p][t])

\* C17: once stop_server has cleared the running flag, and unless
\* start_server sets it again, every accept-loop thread of the coordinator
\* eventually leaves its loop, wherever the stop found it.
C17_LoopExitsAfterStop ==
  \A p \in Procs : Stopped(p) ~> (running[p] \/ AllExited(p))

\* ------------------------------------------------------------------- C18
\* The step being taken is the dispatch of a decoded message whose command
\* is not "focus" (another command, or no command field at all).
NonFocusDispatch ==
  /\ served'.what = "dispatched"
  /\ served'.data \in {POther, PNoCmd}

\* C18: dispatching a decoded message whose command is not "focus" schedules
\* no _bring_to_foreground, runs no handle method and leaves the registry,
\* the running flag and the window as they were.
C18_NonFocusIsInert ==
  [][NonFocusDispatch =>
       /\ ~served'.sched
       /\ uiq' = uiq
       /\ lastBtf' = NoBtf
       /\ frontend' = frontend
       /\ running' = running
       /\ win' = win]_vars

\* A message without a command field has just been dispatched by a running
\* coordinator that has a handle registered.
C18_Witness ==
  /\ served.what = "dispatched" /\ served.data = PNoCmd
  /\ ~served.sched
  /\ running[served.p]
  /\ frontend[served.p] # NoHandle

\* ------------------------------------------------------------------- C19
\* The step being taken runs _bring_to_foreground while no handle is
\* registered.  (A call is only ever scheduled while one is registered, so
\* the handle was unregistered between the scheduling and the run.)
RunWithoutHandle == lastBtf'.p # 0 /\ lastBtf'.h = NoHandle

\* C19: such a run invokes no handle method, raises nothing and changes
\* neither the registry, which stays empty, nor the window.
C19_NoHandleNoOp ==
  [][RunWithoutHandle =>
       /\ lastBtf'.calls = <<>>
       /\ lastBtf'.raised = "" /\ ~lastBtf'.exc
       /\ frontend[lastBtf'.p] = NoHandle
       /\ frontend' = frontend
       /\ win' = win]_vars

\* A call scheduled by a focus command has just run on a coordinator whose
\* stop_server had unregistered the handle in between.
C19_Witness ==
  /\ lastBtf.p # 0 /\ lastBtf.h = NoHandle
  /\ lastBtf.calls = <<>>
  /\ ~running[lastBtf.p]
  /\ frontend[lastBtf.p] = NoHandle

\* ------------------------------------------------------------------- C20
\* The run that has just ended was on a registered handle that offers
\* IsShown and IsIconized, and none of the calls made on it raised.
HealthyHandleRun ==
  /\ lastBtf.p # 0 /\ lastBtf.h # NoHandle
  /\ {"IsShown", "IsIconized"} \subseteq lastBtf.offers
  /\ lastBtf.raised = ""

IsQuery(m) == m \in {"IsShown", "IsIconized"}

\* The calls of the run that act on the window, in the order made.
ActingCalls == SelectSeq(lastBtf.calls, LAMBDA m : ~IsQuery(m))

\* C20: on a healthy registered handle _bring_to_foreground calls Show
\* exactly when the window was hidden, then Iconize(False) exactly when it
\* was iconized, then Raise, then SetFocus, then RequestUserAttention when
\* the handle offers it, and nothing else; the handle stays registered.
C20_ForegroundSequence ==
  HealthyHandleRun =>
     /\ ActingCalls =
          (IF lastBtf.hidden THEN <<"Show">> ELSE <<>>)
          \o (IF lastBtf.iconized THEN <<"Iconize">> ELSE <<>>)
          \o <<"Raise", "SetFocus">>
          \o (IF "RequestUserAttention" \in lastBtf.offers
              THEN <<"RequestUserAttention">> ELSE <<>>)
     /\ lastBtf.fe = lastBtf.h
     /\ frontend[lastBtf.p] = lastBtf.h
     /\ win[lastBtf.p].shown /\ ~win[lastBtf.p].iconized

\* A hidden and iconized window has just been shown, restored, raised,
\* focused and flagged for attention, in this order.
C20_Witness ==
  /\ HealthyHandleRun
  /\ lastBtf.hidden /\ lastBtf.iconized
  /\ ActingCalls = <<"Show", "Iconize", "Raise", "SetFocus", "RequestUserAttention">>
  /\ frontend[lastBtf.p] = lastBtf.h

\* ------------------------------------------------------------------- C14
IsPrefix(a, b) == Len(a) <= Len(b) /\ SubSeq(b, 1, Len(a)) = a

\* C14: with the UI thread and the import threads printing concurrently,
\* the status buffer only ever grows by appending, and the size a poll reads
\* is never below the size read by the poll before it.
C14_BufferNeverShrinks ==
  /\ [][\A p \in Procs : IsPrefix(print_buffer[p], print_buffer'[p])]_vars
  /\ [](polled.k = "cycle" => polled.cur >= polled.old)

\* ------------------------------------------------------------------- C15
\* A poll cycle of the PluginThread has just ended.
CycleEnded == polled.k = "cycle"

\* C15: a poll cycle posts one event when the size it read differs from the
\* watermark and none when it is equal; the event carries the buffer as it
\* is when posted; the watermark is the size read when the cycle ends.
C15_OneEventPerChange ==
  /\ [](CycleEnded =>
          /\ polled.posted \in {0, 1}
          /\ (polled.posted = 1) = (polled.old # polled.cur)
          /\ pthread[polled.p].len_str = polled.cur
          /\ pthread[polled.p].current_len = polled.cur
          /\ polled.posted = 1 =>
                /\ polled.data = print_buffer[polled.p]
                /\ evq[polled.p] # <<>>
                /\ evq[polled.p][Len(evq[polled.p])] = polled.data)
  /\ [][(pthread' # pthread /\ polled'.k = "cycle") =>
          /\ Len(evq'[polled'.p]) = Len(evq[polled'.p]) + polled'.posted
          /\ SubSeq(evq'[polled'.p], 1, Len(evq[polled'.p])) = evq[polled'.p]]_vars

\* The buffer grew from empty, one event was posted and displayed, and the
\* cycle that has just ended read the same size again and posted nothing.
C15_Witness ==
  /\ CycleEnded
  /\ polled.posted = 0
  /\ polled.old = polled.cur /\ polled.cur > 0
  /\ polled.cur = Len(print_buffer[polled.p])
  /\ m_text[polled.p] = print_buffer[polled.p]
  /\ evq[polled.p] = <<>>

\* ------------------------------------------------------------------- C12
\* The step being taken is one of an accept-loop thread or of a
\* PluginThread (start_server, which starts a thread, is not one).
BackgroundStep ==
  \/ pthread' # pthread
  \/ threads' # threads /\ ret'.op # "start_server"

\* C12: every run of _bring_to_foreground and every update of the text
\* control is made by the UI thread's event loop; a step of an accept-loop
\* thread or of the PluginThread leaves the window and the text control
\* alone: at most it queues a call or posts an event.
C12_UiThreadConfinement ==
  /\ [](lastBtf.p # 0 => lastBtf.thread = "ui")
  /\ [](polled.k = "display" => polled.thread = "ui")
  /\ [][BackgroundStep =>
          /\ win' = win /\ m_text' = m_text /\ window' = window
          /\ lastBtf' = NoBtf
          /\ polled'.k = "display" => polled' = polled
          /\ \A p \in Procs :
                /\ uiq'[p] \in {uiq[p], Append(uiq[p], "btf")}
                /\ evq'[p] \in {evq[p], Append(evq[p], print_buffer[p])}]_vars

\* The primary's event loop has just run the call an accept-loop thread
\* queued for a focus command, while a status event the PluginThread posted
\* is waiting for the same loop.
C12_Witness ==
  /\ lastBtf.p = Primary /\ lastBtf.h # NoHandle /\ lastBtf.calls # <<>>
  /\ lastBtf.thread = "ui"
  /\ evq[Primary] # <<>>

\* ------------------------------------------------------------------- C21
\* thread.stop_thread of p's PluginThread is True.
StopFlag(p) == poller[p] = "stopping"

\* C21: once stop_thread is set it stays set; the PluginThread then starts
\* no cycle (it leaves the loop at its next loop test), posts an event only
\* by finishing the cycle it is in, does nothing after it has ended, and
\* eventually ends.
C21_PollerStops ==
  /\ [][\A p \in Procs :
          /\ StopFlag(p) => StopFlag(p)'
          /\ (StopFlag(p) /\ pthread[p].pc = "test") =>
                pthread'[p].pc \in {"test", "ended"}
          /\ (StopFlag(p) /\ Len(evq'[p]) > Len(evq[p])) =>
                /\ pthread[p].pc = "report" /\ pthread'[p].pc = "test"
                /\ Len(evq'[p]) = Len(evq[p]) + 1
          /\ pthread[p].pc = "ended" =>
                pthread'[p] = pthread[p] /\ Len(evq'[p]) <= Len(evq[p])]_vars
  /\ StopFlag(Primary) ~> (pthread[Primary].pc = "ended")

\* The stop flag found the PluginThread inside a cycle: the thread has
\* ended, and the one event it still posted was never displayed.
C21_Witness ==
  \E p \in Procs :
     /\ poller[p] = "stopping" /\ pthread[p].pc = "ended"
     /\ Len(evq[p]) = 1
     /\ pthread[p].len_str = Len(print_buffer[p])
     /\ m_text[p] # print_buffer[p]

\* ------------------------------------------------------------------- C22
\* Some accept-loop thread of p is still executing.
LoopAlive(p) == \E t \in 1..Len(threads[p]) : Alive(threads[p][t])

\* C22: a transport error on a client connection (reset during recv,
\* failed send of the acknowledgment) leaves the accept loop of a running
\* coordinator alive.
C22_LoopSurvivesTransportError ==
  (served.what = "error" /\ running[served.p]) => LoopAlive(served.p)

\* ------------------------------------------------------------------- C23
\* The accept-loop threads of p that have not ended.
LiveThreads(p) == {t \in 1..Len(threads[p]) : Alive(threads[p][t])}

\* C23: whatever start_server and stop_server calls were made, at most one
\* accept-loop thread per manager is executing.
C23_OneLoopThread ==
  \A p \in Procs : Cardinality(LiveThreads(p)) <= 1

\* ------------------------------------------------------------------- C24
\* is_already_running has just returned True while the focus message it
\* sent has not been read by any accept loop yet.
ProbeTrueUnread ==
  /\ ProbeReturned /\ ret.val = "true"
  /\ \E c \in ConnIds :
        /\ conns[c].used /\ conns[c].cli = ret.p
        /\ conns[c].data = PFocus /\ conns[c].acc = "pending"

\* C24: after is_already_running has returned True, the instance owning the
\* port eventually runs _bring_to_foreground; here for the probes whose
\* message is still unread when they return.
C24_ProbeNeverDropped ==
  [](ProbeTrueUnread => <>(\E p \in Peers : RanOn(p)))

\* ------------------------------------------------------------------- C25
\* C25: when start_server fails on a manager that is itself listening,
\* self.socket still refers to the listening socket afterwards and running
\* is still True.
C25_FailedStartKeepsCoordinator ==
  (ret.op = "start_server" /\ ret.val = "false" /\ HoldsListening(ret.p)) =>
     /\ running[ret.p]
     /\ socks[ret.p][msock[ret.p]].st = "listening"

\* ------------------------------------------------------------------- C26
\* C26: no step replaces a registered handle by a different handle: the
\* registry only goes from empty to one handle and back.
C26_RegistryNeverReplaced ==
  [][\A p \in Procs :
       (frontend[p] # NoHandle /\ frontend'[p] # NoHandle) =>
          frontend'[p] = frontend[p]]_vars

\* ------------------------------------------------------------------- C27
\* The relay has settled: the poller runs and waits at its loop test with a
\* watermark equal to the buffer's length, no writer is inside
\* print_to_buffer and no event waits for the window.  From such a state no
\* further event is posted unless a writer appends again.
RelaySettled(p) ==
  /\ poller[p] = "running"
  /\ window[p] = "open"
  /\ pthread[p].pc = "test"
  /\ pthread[p].len_str = Len(print_buffer[p])
  /\ evq[p] = <<>>
  /\ \A w \in Writers : writer[p][w].pc = "idle"

\* C27: once the writers have stopped and the poller has caught up, the
\* content shown by the window is the Status Buffer's final value.
C27_RelayConverges ==
  \A p \in Procs : RelaySettled(p) => m_text[p] = print_buffer[p]

\* ------------------------------------------------------------------- C28
\* The poller has just posted an event.
EventPosted == polled.k = "cycle" /\ polled.posted = 1

\* C28: the content an event carries has the length the poller records as
\* its watermark in that cycle.
C28_EventMatchesWatermark ==
  EventPosted =>
     /\ Len(polled.data) = polled.cur
     /\ pthread[polled.p].len_str = Len(polled.data)

\* ------------------------------------------------------------------- C29
\* The connection a loop thread accepted last is still open on the
\* server's side.
HoldsOpenClient(th) == th.conn # NoConn /\ ~conns[th.conn].srvClosed

\* C29: a loop thread that waits in accept() for the next connection has
\* closed the connection it accepted before.
C29_ClientClosedBeforeNextAccept ==
  \A p \in Procs : \A t \in 1..Len(threads[p]) :
     threads[p][t].st = "accept" => ~HoldsOpenClient(threads[p][t])
====
